---- MODULE Spec2Model ----
(***************************************************************************)
(* Model of package log (deep-compute/log): the formatter builder, the     *)
(* recursive handler builder MakeHandler, the redis sink, the convenience  *)
(* recipes, and the log calls that run through a built handler tree.       *)
(*                                                                         *)
(* Configuration values are Go interface{} values.  A value is a record    *)
(* with its dynamic type t and one payload field per type, so that a type  *)
(* assertion x.(T) is the test x.t = T.                                    *)
(***************************************************************************)
EXTENDS Integers, Sequences, FiniteSets, Bags, TLC

VARIABLES
    up,       \* environment: the resources (paths, addresses) that can be acquired
    tty,      \* environment: standard output is an interactive terminal
    call,     \* the builder invocation last made (its function and inputs)
    ret,      \* what that invocation returned
    root,     \* the process-wide handler slot (log15.Root()'s handler)
    thr,      \* per caller goroutine: its log call in progress
    locks,    \* the SyncHandler mutexes currently held, as <<mutex id, goroutine>>
    pubs,     \* PUBLISH commands in progress, as <<connection id, goroutine>>
    lines,    \* the lines each goroutine's latest log call wrote, a bag
    nlogs,    \* log calls started
    crashed   \* an unrecovered panic ended the process

vars == <<up, tty, call, ret, root, thr, locks, pubs, lines, nlogs, crashed>>

----------------------------------------------------------------------------
(* Bounds *)

MaxArgs == 2        \* arguments per generated configuration node
MaxLogs == 2        \* log calls per run
MaxInstalls == 1    \* SetHandler calls per run
NThreads == 2       \* caller goroutines

----------------------------------------------------------------------------
(* Values: interface{} *)

S(x) == [t |-> "string", s |-> x, n |-> 0, c |-> <<>>]
I(k) == [t |-> "int", s |-> "", n |-> k, c |-> <<>>]
C(q) == [t |-> "HandlerConf", s |-> "", n |-> 0, c |-> q]
Nil == [t |-> "nil", s |-> "", n |-> 0, c |-> <<>>]

(* Errors.  NoErr is Go's nil error. *)
NoErr == "nil"
BadConf == "Bad configuration"
DialErr == "dial: connection refused"
OpenErr == "open: permission denied"
WriteErr == "write: broken pipe"

(* Formats of log15, and the nil Format. *)
NilFormat == "nil"

MakeFormatterLax(format) ==
    IF format.t # "string" THEN [f |-> NilFormat, err |-> BadConf]
    ELSE CASE format.s = "json" -> [f |-> "JsonFormat", err |-> NoErr]
           [] format.s = "json_pretty" -> [f |-> "JsonFormatEx(true,true)", err |-> NoErr]
           [] format.s = "logfmt" -> [f |-> "LogfmtFormat", err |-> NoErr]
           [] format.s = "terminal" -> [f |-> "TerminalFormat", err |-> NoErr]
           [] OTHER -> [f |-> "JsonFormat", err |-> NoErr]

MakeFormatter(format) ==
    IF format.t # "string" THEN [f |-> NilFormat, err |-> BadConf]
    ELSE CASE format.s = "json" -> [f |-> "JsonFormat", err |-> NoErr]
           [] format.s = "json_pretty" -> [f |-> "JsonFormatEx(true,true)", err |-> NoErr]
           [] format.s = "logfmt" -> [f |-> "LogfmtFormat", err |-> NoErr]
           [] format.s = "terminal" -> [f |-> "TerminalFormat", err |-> NoErr]
           [] OTHER -> [f |-> NilFormat, err |-> BadConf]

----------------------------------------------------------------------------
(* Handlers: the objects log15's constructors return.  One record shape:   *)
(* kind, string arguments, format, integer argument, value argument and    *)
(* child handlers.  NilHandler is the nil interface value.                 *)

H(kind, args, fmt, n, v, hs) ==
    [kind |-> kind, args |-> args, fmt |-> fmt, n |-> n, v |-> v, hs |-> hs]

NilHandler == H("nil", <<>>, NilFormat, 0, Nil, <<>>)

(* What a builder call does: what it returns (h, err), whether it panicked *)
(* instead of returning, and the resources it tried to acquire and the     *)
(* nested builder calls it made, in order.                                 *)
Ev(op, name) == [op |-> op, name |-> name]
Ok(h, fx) == [h |-> h, err |-> NoErr, panic |-> FALSE, fx |-> fx]
Fail(err, fx) == [h |-> NilHandler, err |-> err, panic |-> FALSE, fx |-> fx]
Panic(fx) == [h |-> NilHandler, err |-> NoErr, panic |-> TRUE, fx |-> fx]
NoRet == [h |-> NilHandler, err |-> "none", panic |-> FALSE, fx |-> <<>>]

----------------------------------------------------------------------------
(* log15's constructors, as the builder calls them.  The ones that acquire *)
(* a resource (file, connection) do so when called and may fail.           *)

BufferedHandler(bufSize, h) == H("buffered", <<>>, NilFormat, bufSize, Nil, <<h>>)
CallerFileHandler(h) == H("caller_file", <<>>, NilFormat, 0, Nil, <<h>>)
CallerFuncHandler(h) == H("caller_func", <<>>, NilFormat, 0, Nil, <<h>>)
CallerStackHandler(format, h) == H("caller_stack", <<format>>, NilFormat, 0, Nil, <<h>>)
DiscardHandler == H("discard", <<>>, NilFormat, 0, Nil, <<>>)
FailoverHandler(hs) == H("failover", <<>>, NilFormat, 0, Nil, hs)
LazyHandler(h) == H("lazy", <<>>, NilFormat, 0, Nil, <<h>>)
LvlFilterHandler(lvl, h) == H("level_filter", <<>>, NilFormat, lvl, Nil, <<h>>)
MatchFilterHandler(key, value, h) == H("match_filter", <<key>>, NilFormat, 0, value, <<h>>)
MultiHandler(hs) == H("multi", <<>>, NilFormat, 0, Nil, hs)
StreamHandler(stream, fmtr) == H("stream", <<stream>>, fmtr, 0, Nil, <<>>)
SyncHandler(h) == H("sync", <<>>, NilFormat, 0, Nil, <<h>>)

FileHandler(path, fmtr) ==
    IF path \in up
    THEN Ok(H("file", <<path>>, fmtr, 0, Nil, <<>>), <<Ev("open", path)>>)
    ELSE Fail(OpenErr, <<Ev("open", path)>>)

NetHandler(network, address, fmtr) ==
    IF address \in up
    THEN Ok(H("net", <<network, address>>, fmtr, 0, Nil, <<>>), <<Ev("dial", address)>>)
    ELSE Fail(DialErr, <<Ev("dial", address)>>)

SyslogHandler(tag, fmtr) ==
    IF "/dev/log" \in up
    THEN Ok(H("syslog", <<tag>>, fmtr, 0, Nil, <<>>), <<Ev("dial", "/dev/log")>>)
    ELSE Fail(DialErr, <<Ev("dial", "/dev/log")>>)

SyslogNetHandler(network, address, tag, fmtr) ==
    IF address \in up
    THEN Ok(H("syslog_net", <<network, address, tag>>, fmtr, 0, Nil, <<>>),
            <<Ev("dial", address)>>)
    ELSE Fail(DialErr, <<Ev("dial", address)>>)

(* The severity scale: crit 0 < error 1 < warn 2 < info 3 < debug 4, the   *)
(* more severe the smaller.  LvlFromString is log15's parser.              *)
LvlFromString(lvlString) ==
    CASE lvlString \in {"debug", "dbug"} -> [lvl |-> 4, err |-> NoErr]
      [] lvlString = "info" -> [lvl |-> 3, err |-> NoErr]
      [] lvlString = "warn" -> [lvl |-> 2, err |-> NoErr]
      [] lvlString \in {"error", "eror"} -> [lvl |-> 1, err |-> NoErr]
      [] lvlString = "crit" -> [lvl |-> 0, err |-> NoErr]
      [] OTHER -> [lvl |-> 4, err |-> "Unknown level"]

----------------------------------------------------------------------------
(* RedisHandler *)

(* Init: build the JSON formatter, dial Loc; the dial's error is returned. *)
RedisInit(loc) ==
    IF loc \in up
    THEN [formatter |-> "JsonFormat", connected |-> TRUE, err |-> NoErr]
    ELSE [formatter |-> "JsonFormat", connected |-> FALSE, err |-> DialErr]

RedisHandler(loc, channel, formatter) == H("redis", <<loc, channel>>, formatter, 0, Nil, <<>>)

----------------------------------------------------------------------------
(* MakeHandler, one operator per case of its switch *)

RECURSIVE MakeHandler(_)

(* A nested builder call, recorded in the caller's effects. *)
Nested(hdata) ==
    LET r == MakeHandler(hdata)
    IN  [r EXCEPT !.fx = <<Ev("MakeHandler", "")>> \o r.fx]

MakeBuffered(args) ==
    IF Len(args) # 2 THEN Fail(BadConf, <<>>)
    ELSE IF args[1].t # "int" THEN Fail(BadConf, <<>>)
    ELSE IF args[2].t # "HandlerConf" THEN Fail(BadConf, <<>>)
    ELSE LET r == Nested(args[2].c)
         IN  IF r.panic \/ r.err # NoErr THEN r
             ELSE Ok(BufferedHandler(args[1].n, r.h), r.fx)

MakeCallerFile(args) ==
    IF Len(args) # 1 THEN Fail(BadConf, <<>>)
    ELSE IF args[1].t # "HandlerConf" THEN Fail(BadConf, <<>>)
    ELSE LET r == Nested(args[1].c)
         IN  IF r.panic \/ r.err # NoErr THEN r
             ELSE Ok(CallerFileHandler(r.h), r.fx)

MakeCallerFunc(args) ==
    IF Len(args) # 1 THEN Fail(BadConf, <<>>)
    ELSE IF args[1].t # "HandlerConf" THEN Fail(BadConf, <<>>)
    ELSE LET r == Nested(args[1].c)
         IN  IF r.panic \/ r.err # NoErr THEN r
             ELSE Ok(CallerFuncHandler(r.h), r.fx)

MakeCallerStack(args) ==
    IF Len(args) # 2 THEN Fail(BadConf, <<>>)
    ELSE IF args[1].t # "string" THEN Fail(BadConf, <<>>)
    ELSE IF args[2].t # "HandlerConf" THEN Fail(BadConf, <<>>)
    ELSE LET r == Nested(args[2].c)
         IN  IF r.panic \/ r.err # NoErr THEN r
             ELSE Ok(CallerStackHandler(args[1].s, r.h), r.fx)

MakeDiscard(args) ==
    IF Len(args) # 0 THEN Fail(BadConf, <<>>)
    ELSE Ok(DiscardHandler, <<>>)

(* hs := make([]log15.Handler, len(args)): len(args) nil handlers. *)
MakeSlice(n) == [j \in 1..n |-> NilHandler]

(* The failover loop from index i: hs = append(hs, h). *)
RECURSIVE FailoverLoop(_, _, _, _)
FailoverLoop(args, i, hs, fx) ==
    IF i > Len(args) THEN Ok(FailoverHandler(hs), fx)
    ELSE IF args[i].t # "HandlerConf" THEN Panic(fx)
    ELSE LET r == Nested(args[i].c)
         IN  IF r.panic \/ r.err # NoErr THEN [r EXCEPT !.fx = fx \o r.fx]
             ELSE FailoverLoop(args, i + 1, Append(hs, r.h), fx \o r.fx)

MakeFailover(args) == FailoverLoop(args, 1, MakeSlice(Len(args)), <<>>)

MakeFileEager(args) ==
    IF Len(args) # 2 THEN Fail(BadConf, <<>>)
    ELSE IF args[1].t # "string" THEN Fail(BadConf, <<>>)
    ELSE LET o == FileHandler(args[1].s, "JsonFormat")
             f == MakeFormatter(args[2])
         IN  IF f.err # NoErr THEN Fail(f.err, o.fx)
             ELSE FileHandler(args[1].s, f.f)

MakeFile(args) ==
    IF Len(args) # 2 THEN Fail(BadConf, <<>>)
    ELSE IF args[1].t # "string" THEN Fail(BadConf, <<>>)
    ELSE LET f == MakeFormatter(args[2])
         IN  IF f.err # NoErr THEN Fail(f.err, <<>>)
             ELSE FileHandler(args[1].s, f.f)

MakeLazy(args) ==
    IF Len(args) # 1 THEN Fail(BadConf, <<>>)
    ELSE IF args[1].t # "HandlerConf" THEN Fail(BadConf, <<>>)
    ELSE LET r == Nested(args[1].c)
         IN  IF r.panic \/ r.err # NoErr THEN r
             ELSE Ok(LazyHandler(r.h), r.fx)

MakeLevelFilterUnparsed(args) ==
    IF Len(args) # 2 THEN Fail(BadConf, <<>>)
    ELSE IF args[1].t # "string" THEN Fail(BadConf, <<>>)
    ELSE IF args[2].t # "HandlerConf" THEN Fail(BadConf, <<>>)
    ELSE LET r == Nested(args[2].c)
         IN  IF r.panic \/ r.err # NoErr THEN r
             ELSE Ok(LvlFilterHandler(LvlFromString(args[1].s).lvl, r.h), r.fx)

MakeLevelFilter(args) ==
    IF Len(args) # 2 THEN Fail(BadConf, <<>>)
    ELSE IF args[1].t # "string" THEN Fail(BadConf, <<>>)
    ELSE LET l == LvlFromString(args[1].s)
         IN  IF l.err # NoErr THEN Fail(BadConf, <<>>)
             ELSE IF args[2].t # "HandlerConf" THEN Fail(BadConf, <<>>)
             ELSE LET r == Nested(args[2].c)
                  IN  IF r.panic \/ r.err # NoErr THEN r
                      ELSE Ok(LvlFilterHandler(l.lvl, r.h), r.fx)

(* value, ok := args[1].(interface{}): ok is false exactly for nil. *)
MakeMatchFilter(args) ==
    IF Len(args) # 3 THEN Fail(BadConf, <<>>)
    ELSE IF args[1].t # "string" THEN Fail(BadConf, <<>>)
    ELSE IF args[2].t = "nil" THEN Fail(BadConf, <<>>)
    ELSE IF args[3].t # "HandlerConf" THEN Fail(BadConf, <<>>)
    ELSE LET r == Nested(args[3].c)
         IN  IF r.panic \/ r.err # NoErr THEN r
             ELSE Ok(MatchFilterHandler(args[1].s, args[2], r.h), r.fx)

(* The multi loop from index i: hs[i] = h. *)
RECURSIVE MultiLoop(_, _, _, _)
MultiLoop(args, i, hs, fx) ==
    IF i > Len(args) THEN Ok(MultiHandler(hs), fx)
    ELSE IF args[i].t # "HandlerConf" THEN Panic(fx)
    ELSE LET r == Nested(args[i].c)
         IN  IF r.panic \/ r.err # NoErr THEN [r EXCEPT !.fx = fx \o r.fx]
             ELSE MultiLoop(args, i + 1, [hs EXCEPT ![i] = r.h], fx \o r.fx)

MakeMultiAppend(args) ==
    LET r == FailoverLoop(args, 1, MakeSlice(Len(args)), <<>>)
    IN  IF r.panic \/ r.err # NoErr THEN r ELSE Ok(MultiHandler(r.h.hs), r.fx)

MakeMulti(args) == MultiLoop(args, 1, MakeSlice(Len(args)), <<>>)

MakeNet(args) ==
    IF Len(args) # 3 THEN Fail(BadConf, <<>>)
    ELSE IF args[1].t # "string" THEN Fail(BadConf, <<>>)
    ELSE IF args[2].t # "string" THEN Fail(BadConf, <<>>)
    ELSE LET f == MakeFormatter(args[3])
         IN  IF f.err # NoErr THEN Fail(f.err, <<>>)
             ELSE NetHandler(args[1].s, args[2].s, f.f)

MakeStreamDefault(args) ==
    IF Len(args) # 2 THEN Fail(BadConf, <<>>)
    ELSE IF args[1].t # "string" THEN Fail(BadConf, <<>>)
    ELSE LET stream == IF args[1].s = "stdout" THEN "os.Stdout" ELSE "os.Stderr"
             f == MakeFormatter(args[2])
         IN  IF f.err # NoErr THEN Fail(f.err, <<>>)
             ELSE Ok(StreamHandler(stream, f.f), <<>>)

MakeStream(args) ==
    IF Len(args) # 2 THEN Fail(BadConf, <<>>)
    ELSE IF args[1].t # "string" THEN Fail(BadConf, <<>>)
    ELSE IF args[1].s \notin {"stdout", "stderr", ""} THEN Fail(BadConf, <<>>)
    ELSE LET stream == IF args[1].s = "stdout" THEN "os.Stdout" ELSE "os.Stderr"
             f == MakeFormatter(args[2])
         IN  IF f.err # NoErr THEN Fail(f.err, <<>>)
             ELSE Ok(StreamHandler(stream, f.f), <<>>)

MakeSync(args) ==
    IF Len(args) # 1 THEN Fail(BadConf, <<>>)
    ELSE IF args[1].t # "HandlerConf" THEN Fail(BadConf, <<>>)
    ELSE LET r == Nested(args[1].c)
         IN  IF r.panic \/ r.err # NoErr THEN r
             ELSE Ok(SyncHandler(r.h), r.fx)

MakeSyslog(args) ==
    IF Len(args) # 2 THEN Fail(BadConf, <<>>)
    ELSE IF args[1].t # "string" THEN Fail(BadConf, <<>>)
    ELSE LET f == MakeFormatter(args[2])
         IN  IF f.err # NoErr THEN Fail(f.err, <<>>)
             ELSE SyslogHandler(args[1].s, f.f)

MakeSyslogNet(args) ==
    IF Len(args) # 4 THEN Fail(BadConf, <<>>)
    ELSE IF args[1].t # "string" THEN Fail(BadConf, <<>>)
    ELSE IF args[2].t # "string" THEN Fail(BadConf, <<>>)
    ELSE IF args[3].t # "string" THEN Fail(BadConf, <<>>)
    ELSE LET f == MakeFormatter(args[4])
         IN  IF f.err # NoErr THEN Fail(f.err, <<>>)
             ELSE SyslogNetHandler(args[1].s, args[2].s, args[3].s, f.f)

MakeRedisBare(args) ==
    IF Len(args) # 2 THEN Fail(BadConf, <<>>)
    ELSE IF args[1].t # "string" THEN Fail(BadConf, <<>>)
    ELSE IF args[2].t # "string" THEN Fail(BadConf, <<>>)
    ELSE LET i == RedisInit(args[1].s)
         IN  IF i.err # NoErr THEN Fail(i.err, <<Ev("dial", args[1].s)>>)
             ELSE Ok(RedisHandler(args[1].s, args[2].s, i.formatter),
                     <<Ev("dial", args[1].s)>>)

MakeRedisBadConf(args) ==
    IF Len(args) # 2 THEN Fail(BadConf, <<>>)
    ELSE IF args[1].t # "string" THEN Fail(BadConf, <<>>)
    ELSE IF args[2].t # "string" THEN Fail(BadConf, <<>>)
    ELSE LET i == RedisInit(args[1].s)
         IN  IF i.err # NoErr THEN Fail(BadConf, <<Ev("dial", args[1].s)>>)
             ELSE Ok(SyncHandler(RedisHandler(args[1].s, args[2].s, i.formatter)),
                     <<Ev("dial", args[1].s)>>)

MakeRedis(args) ==
    IF Len(args) # 2 THEN Fail(BadConf, <<>>)
    ELSE IF args[1].t # "string" THEN Fail(BadConf, <<>>)
    ELSE IF args[2].t # "string" THEN Fail(BadConf, <<>>)
    ELSE LET i == RedisInit(args[1].s)
         IN  IF i.err # NoErr THEN Fail(i.err, <<Ev("dial", args[1].s)>>)
             ELSE Ok(SyncHandler(RedisHandler(args[1].s, args[2].s, i.formatter)),
                     <<Ev("dial", args[1].s)>>)

(* name := conf[0].(string) is an unchecked assertion: it panics when the  *)
(* first element is not a string.                                          *)
MakeHandler(conf) ==
    IF Len(conf) < 1 THEN Fail(BadConf, <<>>)
    ELSE IF conf[1].t # "string" THEN Panic(<<>>)
    ELSE LET name == conf[1].s
             args == Tail(conf)
         IN  CASE name = "buffered" -> MakeBuffered(args)
               [] name = "caller_file" -> MakeCallerFile(args)
               [] name = "caller_func" -> MakeCallerFunc(args)
               [] name = "caller_stack" -> MakeCallerStack(args)
               [] name = "discard" -> MakeDiscard(args)
               [] name = "failover" -> MakeFailover(args)
               [] name = "file" -> MakeFile(args)
               [] name = "lazy" -> MakeLazy(args)
               [] name = "level_filter" -> MakeLevelFilter(args)
               [] name = "match_filter" -> MakeMatchFilter(args)
               [] name = "multi" -> MakeMulti(args)
               [] name = "net" -> MakeNet(args)
               [] name = "stream" -> MakeStream(args)
               [] name = "sync" -> MakeSync(args)
               [] name = "syslog" -> MakeSyslog(args)
               [] name = "syslog_net" -> MakeSyslogNet(args)
               [] name = "redis" -> MakeRedis(args)
               [] OTHER -> Fail(BadConf, <<>>)

(* MakeBasicHandler: the configuration it assembles, and the build. *)
BasicConfLoud(fpath, lvl, quiet) ==
    LET fileHandlerConf == IF fpath # "" THEN <<S("file"), S(fpath), S("json")>>
                           ELSE <<S("discard")>>
        streamHandlerConf == IF tty THEN <<S("stream"), S("stderr"), S("terminal")>>
                             ELSE <<S("stream"), S("stderr"), S("json")>>
    IN  <<S("level_filter"), S(lvl),
          C(<<S("caller_file"),
              C(<<S("multi"), C(fileHandlerConf), C(streamHandlerConf)>>)>>)>>

BasicConf(fpath, lvl, quiet) ==
    LET fileHandlerConf == IF fpath # "" THEN <<S("file"), S(fpath), S("json")>>
                           ELSE <<S("discard")>>
        streamHandlerConf == IF ~quiet
                             THEN IF tty THEN <<S("stream"), S("stderr"), S("terminal")>>
                                  ELSE <<S("stream"), S("stderr"), S("json")>>
                             ELSE <<S("discard")>>
    IN  <<S("level_filter"), S(lvl),
          C(<<S("caller_file"),
              C(<<S("multi"), C(fileHandlerConf), C(streamHandlerConf)>>)>>)>>

MakeBasicHandler(fpath, lvl, quiet) == MakeHandler(BasicConf(fpath, lvl, quiet))

MakeNoopHandler == MakeHandler(<<S("discard")>>)

----------------------------------------------------------------------------
(* Inputs *)

Kinds == {"buffered", "caller_file", "caller_func", "caller_stack", "discard",
          "failover", "file", "lazy", "level_filter", "match_filter", "multi",
          "net", "stream", "sync", "syslog", "syslog_net", "redis"}

SeqsUpTo(X, n) == UNION {[1..k -> X] : k \in 0..n}

(* Scalars: a format name, a name that is no format, level or stream, a    *)
(* level name, the stream names, the empty string, an int, nil.            *)
Atoms == {S("json"), S("bogus"), S("warn"), S("stdout"), S("stderr"), S(""), I(5), Nil}

(* First elements: every kind, a string that is no kind, and a non-string. *)
Heads == {S(k) : k \in Kinds \cup {"unknown"}} \cup {I(5)}

(* Nodes without nested configurations. *)
Leaves == {<<>>} \cup {<<h>> \o a : h \in Heads, a \in SeqsUpTo(Atoms, MaxArgs)}

(* The kinds of three and four arguments, over fewer scalars. *)
Wide == {<<S(k)>> \o a : k \in {"net", "syslog_net", "match_filter", "redis"},
                         a \in [1..3 -> {S("json"), S("bogus"), I(5)}]
                               \cup [1..4 -> {S("json"), S("bogus"), I(5)}]}

(* Nested configurations, valid and invalid, used as arguments. *)
Kids == {<<S("discard")>>,
         <<S("file"), S("bogus"), S("json")>>,
         <<S("file"), S("bogus"), S("bogus")>>,
         <<S("stream"), S("stdout"), S("json")>>,
         <<S("redis"), S("bogus"), S("json")>>,
         <<S("unknown")>>,
         <<I(5)>>,
         <<>>}

Depth1 == {<<h>> \o a : h \in Heads,
                        a \in SeqsUpTo({S("json"), S("warn"), I(5)}
                                       \cup {C(k) : k \in Kids}, MaxArgs)}
          \cup {<<S("match_filter"), k, v, C(c)>> :
                    k \in {S("bogus"), I(5)}, v \in {S("json"), Nil}, c \in Kids}

Kids1 == {<<S("multi"), C(<<S("file"), S("bogus"), S("json")>>), C(<<S("discard")>>)>>,
          <<S("multi"), C(<<S("file"), S("bogus"), S("json")>>), C(<<S("unknown")>>)>>,
          <<S("multi"), S("bogus")>>,
          <<S("failover"), C(<<S("discard")>>)>>,
          <<S("failover"), I(5)>>,
          <<S("level_filter"), S("bogus"), C(<<S("discard")>>)>>,
          <<S("sync"), C(<<S("redis"), S("bogus"), S("json")>>)>>}

Depth2 == {<<S(k), C(c)>> : k \in {"sync", "lazy", "caller_file", "multi", "failover"},
                           c \in Kids1}
          \cup {<<S(k), a, C(c)>> : k \in {"buffered", "level_filter", "caller_stack"},
                                    a \in {S("warn"), I(5)}, c \in Kids1}

Confs == Leaves \cup Wide \cup Depth1 \cup Depth2

FormatInputs == Atoms \cup {S("json_pretty"), S("logfmt"), S("terminal"), S("unknown"),
                            C(<<>>), C(<<S("json")>>)}

LevelNames == {"debug", "dbug", "info", "warn", "error", "eror", "crit", "bogus", ""}

(* Configurations whose handlers the log calls run through. *)
Sinks == {<<S("discard")>>,
          <<S("stream"), S("stdout"), S("json")>>,
          <<S("file"), S("bogus"), S("logfmt")>>,
          <<S("redis"), S("bogus"), S("json")>>}

LogConfs ==
    Sinks
    \cup {<<S("sync"), C(c)>> : c \in Sinks}
    \cup {<<S(k), C(<<S("stream"), S("stdout"), S("json")>>)>> :
              k \in {"lazy", "caller_file", "caller_func"}}
    \cup {<<S(k)>> \o a : k \in {"multi", "failover"},
                          a \in SeqsUpTo({C(c) : c \in Sinks}, MaxArgs)}
    \cup {<<S("level_filter"), S(l), C(<<S("stream"), S("stderr"), S("json")>>)>> :
              l \in LevelNames}
    \cup {<<S("match_filter"), S("component"), S(v), C(<<S("stream"), S("stdout"), S("json")>>)>> :
              v \in {"db", "web"}}
    \cup {<<S("caller_stack"), S("%+v"), C(<<S("stream"), S("stdout"), S("json")>>)>>,
          <<S("net"), S("tcp"), S("bogus"), S("json")>>,
          <<S("syslog"), S("bogus"), S("json")>>,
          <<S("syslog_net"), S("tcp"), S("bogus"), S("bogus"), S("json")>>}

(* Configurations with a shared sink: redis alone and under each kind of   *)
(* parent, and a file behind a mutex.                                      *)
Redis == <<S("redis"), S("bogus"), S("json")>>

ConcConfs ==
    {Redis,
     <<S("sync"), C(Redis)>>,
     <<S("multi"), C(Redis), C(Redis)>>,
     <<S("multi"), C(<<S("discard")>>), C(Redis)>>,
     <<S("sync"), C(<<S("file"), S("bogus"), S("json")>>)>>,
     <<S("failover"), C(Redis)>>,
     <<S("level_filter"), S("warn"), C(Redis)>>,
     <<S("caller_file"), C(Redis)>>}

Environments == {{}, {"bogus"}, {"bogus", "json", "warn", "stdout", "", "/dev/log"}}

Threads == 1..NThreads

(* Records: a severity and one context pair, component = comp. *)
Records == [lvl : 0..4, comp : {"db"}, ann : {{}}]
(* The records of the concurrent runs: Lvl = LvlError. *)
ConcRecords == {r \in Records : r.lvl = 1}

----------------------------------------------------------------------------
(* State *)

NoCall == [fn |-> "none", conf |-> <<>>, format |-> Nil, fpath |-> "", lvl |-> "",
           quiet |-> FALSE]
CallH(conf) == [NoCall EXCEPT !.fn = "MakeHandler", !.conf = conf]
CallF(format) == [NoCall EXCEPT !.fn = "MakeFormatter", !.format = format]
CallB(fpath, lvl, quiet) ==
    [NoCall EXCEPT !.fn = "MakeBasicHandler", !.fpath = fpath, !.lvl = lvl, !.quiet = quiet]
CallN == [NoCall EXCEPT !.fn = "MakeNoopHandler"]

NoFormat == [f |-> NilFormat, err |-> "none"]

(* A returned value of either builder: ret.f for MakeFormatter. *)
Ret(r, f) == [h |-> r.h, err |-> r.err, panic |-> r.panic, fx |-> r.fx, f |-> f]

Idle == [pc |-> "idle", stk |-> <<>>, err |-> NoErr, trace |-> <<>>,
         rec |-> [lvl |-> 0, comp |-> "db", ann |-> {}],
         root |-> [h |-> NilHandler, gen |-> 0, from |-> NoCall], n |-> 0]

(* init() of log.go: the root handler is stream(stderr, terminal); the     *)
(* build error is dropped.                                                 *)
InitConf == <<S("stream"), S("stderr"), S("terminal")>>

Init ==
    /\ up \in Environments
    /\ tty \in BOOLEAN
    /\ call = NoCall
    /\ ret = Ret(NoRet, NilFormat)
    /\ root = [h |-> MakeHandler(InitConf).h, gen |-> 0, from |-> CallH(InitConf)]
    /\ thr = [t \in Threads |-> Idle]
    /\ locks = {}
    /\ pubs = {}
    /\ lines = EmptyBag
    /\ nlogs = 0
    /\ crashed = FALSE

LogVars == <<root, thr, locks, pubs, lines, nlogs>>

(* A builder call by the host program; a panic is not recovered. *)
Returned(c, r, f) ==
    /\ call' = c
    /\ ret' = Ret(r, f)
    /\ crashed' = r.panic

CallMakeHandler(conf) ==
    /\ ~crashed /\ call.fn = "none"
    /\ Returned(CallH(conf), MakeHandler(conf), NilFormat)
    /\ UNCHANGED <<up, tty, LogVars>>

CallMakeFormatter(format) ==
    /\ ~crashed /\ call.fn = "none"
    /\ LET f == MakeFormatter(format)
       IN  Returned(CallF(format), [NoRet EXCEPT !.err = f.err], f.f)
    /\ UNCHANGED <<up, tty, LogVars>>

CallMakeBasicHandler(fpath, lvl, quiet) ==
    /\ ~crashed /\ call.fn = "none"
    /\ Returned(CallB(fpath, lvl, quiet), MakeBasicHandler(fpath, lvl, quiet), NilFormat)
    /\ UNCHANGED <<up, tty, LogVars>>

CallMakeNoopHandler ==
    /\ ~crashed /\ call.fn = "none"
    /\ Returned(CallN, MakeNoopHandler, NilFormat)
    /\ UNCHANGED <<up, tty, LogVars>>

(* The caller is done with the returned values. *)
Drop ==
    /\ ~crashed /\ call.fn # "none"
    /\ call' = NoCall
    /\ ret' = Ret(NoRet, NilFormat)
    /\ UNCHANGED <<up, tty, LogVars, crashed>>

(* SetHandler(hdlr) with the handler a builder returned without error:     *)
(* one assignment of the root slot.                                        *)
SetHandler ==
    /\ ~crashed
    /\ call.fn \in {"MakeHandler", "MakeBasicHandler", "MakeNoopHandler"}
    /\ ret.err = NoErr
    /\ root.gen < MaxInstalls
    /\ root' = [h |-> ret.h, gen |-> root.gen + 1, from |-> call]
    /\ call' = NoCall
    /\ ret' = Ret(NoRet, NilFormat)
    /\ UNCHANGED <<up, tty, thr, locks, pubs, lines, nlogs, crashed>>

----------------------------------------------------------------------------
(* Log calls.  A caller goroutine reads the root slot once and runs        *)
(* h.Log(r) through the tree, one handler at a time.  Its stack holds what *)
(* is left to do: handlers to call, deferred unlocks, loop continuations.  *)
(* A node's id is the generation of the tree followed by the path to the   *)
(* node; it names the node's mutex (sync) and connection (redis).          *)

Frame(op, h, id, i) == [op |-> op, h |-> h, id |-> id, i |-> i]
CallFrame(h, id) == Frame("call", h, id, 0)
Visit(f, err) == [id |-> f.id, kind |-> f.h.kind, err |-> err]
Line(f, name, t) ==
    [sink |-> f.h.kind, name |-> name, fmt |-> f.h.fmt, lvl |-> thr[t].rec.lvl,
     ann |-> thr[t].rec.ann, by |-> f.id, t |-> t, k |-> thr[t].n]

Running(t, kinds) ==
    /\ ~crashed
    /\ thr[t].pc = "run"
    /\ Head(thr[t].stk).op = "call"
    /\ Head(thr[t].stk).h.kind \in kinds

(* The goroutine goes on with stack stk; an empty stack ends the call. *)
Goes(t, stk, err, trace, rec) ==
    thr' = [thr EXCEPT ![t] = [@ EXCEPT !.stk = stk, !.err = err, !.trace = trace,
                                        !.rec = rec,
                                        !.pc = IF Len(stk) = 0 THEN "idle" ELSE "run",
                                        !.n = IF Len(stk) = 0 THEN @ + 1 ELSE @]]

(* logger.write: the record goes to the handler now in the root slot. *)
LogStart(t, r) ==
    /\ ~crashed
    /\ thr[t].pc = "idle"
    /\ nlogs < MaxLogs
    /\ nlogs' = nlogs + 1
    /\ thr' = [thr EXCEPT ![t] = [@ EXCEPT !.pc = "run",
                                          !.stk = <<CallFrame(root.h, <<root.gen>>)>>,
                                          !.err = NoErr, !.trace = <<>>, !.rec = r,
                                          !.root = root]]
    /\ lines' = [l \in {x \in DOMAIN lines : x.t # t} |-> lines[l]]
    /\ UNCHANGED <<up, tty, call, ret, root, locks, pubs, crashed>>

(* A method call on the nil interface value: nil pointer dereference. *)
StepNil(t) ==
    /\ Running(t, {"nil"})
    /\ crashed' = TRUE
    /\ LET f == Head(thr[t].stk)
       IN  thr' = [thr EXCEPT ![t].trace = Append(@, Visit(f, "panic"))]
    /\ UNCHANGED <<up, tty, call, ret, root, locks, pubs, lines, nlogs>>

StepDiscard(t) ==
    /\ Running(t, {"discard"})
    /\ LET f == Head(thr[t].stk)
       IN  Goes(t, Tail(thr[t].stk), NoErr, Append(thr[t].trace, Visit(f, NoErr)),
                thr[t].rec)
    /\ UNCHANGED <<up, tty, call, ret, root, locks, pubs, lines, nlogs, crashed>>

(* The writing sinks: format the record, write it; the write may fail. *)
StepWrite(t, ok) ==
    /\ Running(t, {"stream", "file", "net", "syslog", "syslog_net"})
    /\ LET f == Head(thr[t].stk)
           e == IF ok THEN NoErr ELSE WriteErr
       IN  /\ Goes(t, Tail(thr[t].stk), e, Append(thr[t].trace, Visit(f, e)), thr[t].rec)
           /\ lines' = IF ok THEN lines (+) SetToBag({Line(f, f.h.args[Len(f.h.args)], t)})
                       ELSE lines
    /\ UNCHANGED <<up, tty, call, ret, root, locks, pubs, nlogs, crashed>>

(* SyncHandler: mu.Lock(); defer mu.Unlock(); return h.Log(r) *)
StepLock(t) ==
    /\ Running(t, {"sync"})
    /\ LET f == Head(thr[t].stk)
       IN  /\ \A u \in Threads : <<f.id, u>> \notin locks
           /\ locks' = locks \cup {<<f.id, t>>}
           /\ Goes(t, <<CallFrame(f.h.hs[1], Append(f.id, 1)), Frame("unlock", f.h, f.id, 0)>>
                      \o Tail(thr[t].stk),
                   thr[t].err, Append(thr[t].trace, Visit(f, "-")), thr[t].rec)
    /\ UNCHANGED <<up, tty, call, ret, root, pubs, lines, nlogs, crashed>>

(* MultiHandler: every child in order, their errors dropped, nil returned. *)
StepMulti(t) ==
    /\ Running(t, {"multi"})
    /\ LET f == Head(thr[t].stk)
           kids == [i \in 1..Len(f.h.hs) |-> CallFrame(f.h.hs[i], Append(f.id, i))]
       IN  Goes(t, kids \o <<Frame("retnil", f.h, f.id, 0)>> \o Tail(thr[t].stk),
                thr[t].err, Append(thr[t].trace, Visit(f, "-")), thr[t].rec)
    /\ UNCHANGED <<up, tty, call, ret, root, locks, pubs, lines, nlogs, crashed>>

(* FailoverHandler: the children in order until one returns nil; with no   *)
(* children, nil.                                                          *)
StepFailover(t) ==
    /\ Running(t, {"failover"})
    /\ LET f == Head(thr[t].stk)
       IN  IF Len(f.h.hs) = 0
           THEN Goes(t, Tail(thr[t].stk), NoErr, Append(thr[t].trace, Visit(f, NoErr)),
                     thr[t].rec)
           ELSE Goes(t, <<CallFrame(f.h.hs[1], Append(f.id, 1)), Frame("next", f.h, f.id, 1)>>
                        \o Tail(thr[t].stk),
                     thr[t].err, Append(thr[t].trace, Visit(f, "-")), thr[t].rec)
    /\ UNCHANGED <<up, tty, call, ret, root, locks, pubs, lines, nlogs, crashed>>

(* Control returns to a handler that waits for its child: SyncHandler's    *)
(* deferred Unlock, the end of MultiHandler's loop (nil), FailoverHandler's *)
(* loop (nil after a child that returned nil, the next child after one     *)
(* that returned an error, the last error after the last child).           *)
StepReturn(t) ==
    /\ ~crashed
    /\ thr[t].pc = "run"
    /\ Head(thr[t].stk).op \in {"unlock", "retnil", "next"}
    /\ LET f == Head(thr[t].stk)
           more == f.op = "next" /\ thr[t].err # NoErr /\ f.i < Len(f.h.hs)
       IN  /\ locks' = IF f.op = "unlock" THEN locks \ {<<f.id, t>>} ELSE locks
           /\ Goes(t,
                   IF more
                   THEN <<CallFrame(f.h.hs[f.i + 1], Append(f.id, f.i + 1)),
                          Frame("next", f.h, f.id, f.i + 1)>> \o Tail(thr[t].stk)
                   ELSE Tail(thr[t].stk),
                   IF f.op = "retnil" THEN NoErr ELSE thr[t].err,
                   thr[t].trace, thr[t].rec)
    /\ UNCHANGED <<up, tty, call, ret, root, pubs, lines, nlogs, crashed>>

(* LvlFilterHandler passes r when r.Lvl <= maxLvl; MatchFilterHandler when *)
(* the context value under key equals value.  A dropped record returns nil. *)
Passes(h, r) ==
    IF h.kind = "level_filter" THEN r.lvl <= h.n
    ELSE h.args[1] = "component" /\ h.v.t = "string" /\ h.v.s = r.comp

StepFilter(t) ==
    /\ Running(t, {"level_filter", "match_filter"})
    /\ LET f == Head(thr[t].stk)
       IN  IF Passes(f.h, thr[t].rec)
           THEN Goes(t, <<CallFrame(f.h.hs[1], Append(f.id, 1))>> \o Tail(thr[t].stk),
                     thr[t].err, Append(thr[t].trace, Visit(f, "-")), thr[t].rec)
           ELSE Goes(t, Tail(thr[t].stk), NoErr, Append(thr[t].trace, Visit(f, NoErr)),
                     thr[t].rec)
    /\ UNCHANGED <<up, tty, call, ret, root, locks, pubs, lines, nlogs, crashed>>

(* The caller annotations add a context pair to the record; LazyHandler    *)
(* evaluates its lazy values.  Then the child.                             *)
StepAnnotate(t) ==
    /\ Running(t, {"caller_file", "caller_func", "caller_stack", "lazy"})
    /\ LET f == Head(thr[t].stk)
           r == IF f.h.kind = "lazy" THEN thr[t].rec
                ELSE [thr[t].rec EXCEPT !.ann = @ \cup {f.h.kind}]
       IN  Goes(t, <<CallFrame(f.h.hs[1], Append(f.id, 1))>> \o Tail(thr[t].stk),
                thr[t].err, Append(thr[t].trace, Visit(f, "-")), r)
    /\ UNCHANGED <<up, tty, call, ret, root, locks, pubs, lines, nlogs, crashed>>

(* RedisHandler.Log: format, then conn.Do("PUBLISH", Channel, b): the      *)
(* command is sent, and later its reply or a transport error arrives.      *)
StepPublish(t) ==
    /\ Running(t, {"redis"})
    /\ LET f == Head(thr[t].stk)
       IN  /\ pubs' = pubs \cup {<<f.id, t>>}
           /\ Goes(t, <<Frame("endpub", f.h, f.id, 0)>> \o Tail(thr[t].stk),
                   thr[t].err, Append(thr[t].trace, Visit(f, "-")), thr[t].rec)
    /\ UNCHANGED <<up, tty, call, ret, root, locks, lines, nlogs, crashed>>

StepPublished(t, ok) ==
    /\ ~crashed
    /\ thr[t].pc = "run"
    /\ Head(thr[t].stk).op = "endpub"
    /\ LET f == Head(thr[t].stk)
           e == IF ok THEN NoErr ELSE WriteErr
       IN  /\ pubs' = pubs \ {<<f.id, t>>}
           /\ lines' = IF ok THEN lines (+) SetToBag({Line(f, f.h.args[2], t)}) ELSE lines
           /\ Goes(t, Tail(thr[t].stk), e,
                   Append(thr[t].trace, [id |-> f.id, kind |-> "PUBLISH", err |-> e]),
                   thr[t].rec)
    /\ UNCHANGED <<up, tty, call, ret, root, locks, nlogs, crashed>>

----------------------------------------------------------------------------
(* Specifications *)

(* No builder call is pending and the process is alive. *)
Ready == ~crashed /\ call.fn = "none"

(* The builders, over every generated configuration. *)
Next ==
    \/ Ready /\ \E conf \in Confs : CallMakeHandler(conf)
    \/ Ready /\ \E format \in FormatInputs : CallMakeFormatter(format)
    \/ Ready /\ \E fpath \in {"", "bogus"}, lvl \in LevelNames, quiet \in BOOLEAN :
                   CallMakeBasicHandler(fpath, lvl, quiet)
    \/ CallMakeNoopHandler
    \/ Drop

Spec == Init /\ [][Next]_vars

(* One step of goroutine t's log call. *)
Steps(t) ==
    \/ StepNil(t)
    \/ StepDiscard(t)
    \/ \E ok \in BOOLEAN : StepWrite(t, ok)
    \/ StepLock(t)
    \/ StepMulti(t)
    \/ StepFailover(t)
    \/ StepReturn(t)
    \/ StepFilter(t)
    \/ StepAnnotate(t)
    \/ StepPublish(t)
    \/ \E ok \in BOOLEAN : StepPublished(t, ok)

(* The host sets logging up in main before it logs (README, Usage):        *)
(* builder calls and SetHandler come before the first log call, and log    *)
(* calls start once the last builder call has been dealt with.             *)
Setup == nlogs = 0

LogInit == Init /\ up = {"bogus", "json", "warn", "stdout", "", "/dev/log"}

(* Building, installing, and the main goroutine logging through the        *)
(* installed handler, one call after the other.                            *)
Main == {t \in Threads : \A u \in Threads : t <= u}

LogNext ==
    \/ Setup /\ Ready /\ \E conf \in LogConfs : CallMakeHandler(conf)
    \/ Setup /\ Ready /\ \E fpath \in {"", "bogus"}, lvl \in {"warn", "bogus"},
                            quiet \in BOOLEAN :
                            CallMakeBasicHandler(fpath, lvl, quiet)
    \/ Setup /\ CallMakeNoopHandler
    \/ Setup /\ Drop
    \/ Setup /\ SetHandler
    \/ \E t \in Main :
          \/ Ready /\ \E r \in Records : LogStart(t, r)
          \/ Steps(t)

LogSpec == LogInit /\ [][LogNext]_vars

(* Building, installing, and every goroutine logging at once through a     *)
(* handler that holds a shared sink.                                       *)
ConcNext ==
    \/ Setup /\ Ready /\ \E conf \in ConcConfs : CallMakeHandler(conf)
    \/ Setup /\ Drop
    \/ Setup /\ SetHandler
    \/ \E t \in Threads :
          \/ Ready /\ \E r \in ConcRecords : LogStart(t, r)
          \/ Steps(t)

ConcSpec == LogInit /\ [][ConcNext]_vars

----------------------------------------------------------------------------
(* What the claims are stated with *)

FormatNames == {"json", "json_pretty", "logfmt", "terminal"}
IsFormat(v) == v.t = "string" /\ v.s \in FormatNames
IsStr(v) == v.t = "string"
IsConf(v) == v.t = "HandlerConf"

(* A node's own arguments are in order: the count, the scalar types, the   *)
(* level, stream and format names, and a configuration where one is due    *)
(* (the list of handlers in MakeHandler's documentation).                  *)
OwnArgsOk(name, args) ==
    CASE name \in {"caller_file", "caller_func", "lazy", "sync"} ->
             Len(args) = 1 /\ IsConf(args[1])
      [] name = "buffered" -> Len(args) = 2 /\ args[1].t = "int" /\ IsConf(args[2])
      [] name = "caller_stack" -> Len(args) = 2 /\ IsStr(args[1]) /\ IsConf(args[2])
      [] name = "discard" -> Len(args) = 0
      [] name \in {"failover", "multi"} -> \A i \in 1..Len(args) : IsConf(args[i])
      [] name = "file" -> Len(args) = 2 /\ IsStr(args[1]) /\ IsFormat(args[2])
      [] name = "level_filter" ->
             /\ Len(args) = 2 /\ IsStr(args[1]) /\ IsConf(args[2])
             /\ args[1].s \in {"debug", "dbug", "info", "warn", "error", "eror", "crit"}
      [] name = "match_filter" ->
             Len(args) = 3 /\ IsStr(args[1]) /\ args[2].t # "nil" /\ IsConf(args[3])
      [] name = "net" -> Len(args) = 3 /\ IsStr(args[1]) /\ IsStr(args[2]) /\ IsFormat(args[3])
      [] name = "stream" ->
             /\ Len(args) = 2 /\ IsStr(args[1]) /\ IsFormat(args[2])
             /\ args[1].s \in {"stdout", "stderr", ""}
      [] name = "syslog" -> Len(args) = 2 /\ IsStr(args[1]) /\ IsFormat(args[2])
      [] name = "syslog_net" ->
             /\ Len(args) = 4 /\ IsStr(args[1]) /\ IsStr(args[2]) /\ IsStr(args[3])
             /\ IsFormat(args[4])
      [] name = "redis" -> Len(args) = 2 /\ IsStr(args[1]) /\ IsStr(args[2])
      [] OTHER -> FALSE

(* The validity invariant: every node's kind is in the vocabulary, its own *)
(* arguments are in order, and every nested configuration is valid.        *)
RECURSIVE Valid(_)
Valid(conf) ==
    /\ Len(conf) >= 1
    /\ IsStr(conf[1])
    /\ conf[1].s \in Kinds
    /\ OwnArgsOk(conf[1].s, Tail(conf))
    /\ \A i \in 2..Len(conf) : IsConf(conf[i]) => Valid(conf[i].c)

(* A configuration and every configuration nested in it. *)
RECURSIVE SubConfs(_)
SubConfs(conf) ==
    {conf} \cup UNION {SubConfs(conf[i].c) : i \in {j \in 1..Len(conf) : IsConf(conf[j])}}

RECURSIVE SumOf(_, _)
SumOf(B, D) ==
    IF D = {} THEN 0
    ELSE LET x == CHOOSE y \in D : TRUE IN CopiesIn(x, B) + SumOf(B, D \ {x})

(* The lines goroutine t's k-th log call wrote through the node id. *)
Wrote(t, k, id) ==
    SumOf(lines, {l \in BagToSet(lines) : l.t = t /\ l.k = k /\ l.by = id})

(* The lines goroutine t's k-th log call wrote at all. *)
WroteAny(t, k) ==
    SumOf(lines, {l \in BagToSet(lines) : l.t = t /\ l.k = k})

(* Goroutine t has finished a log call; thr[t].root is the tree it ran     *)
(* through and thr[t].trace the handlers it called, in order.              *)
Finished(t) == thr[t].pc = "idle" /\ thr[t].n > 0

(* The calls goroutine t made to the nodes at depth d of the tree. *)
CallsAt(t, d) ==
    SelectSeq(thr[t].trace, LAMBDA e : Len(e.id) = d /\ e.kind # "PUBLISH")

BuiltFrom(R, kind) ==
    /\ R.from.fn = "MakeHandler"
    /\ Len(R.from.conf) >= 1
    /\ R.from.conf[1] = S(kind)

----------------------------------------------------------------------------
(* C1: MakeHandler returns an error and no handler for every configuration *)
(* that violates the validity invariant, and never aborts otherwise.       *)
C1_InvalidGivesError ==
    (call.fn = "MakeHandler" /\ ~Valid(call.conf))
        => (~ret.panic /\ ret.err # NoErr /\ ret.h = NilHandler)

(* C2: the handler built from failover(c1..cn) has exactly the n children  *)
(* built from c1..cn in order; a log call tries child 1 first, child i+1   *)
(* only after child i returned an error, and stops at the first success.   *)
C2_FailoverChildren ==
    \A t \in Threads :
        LET R == thr[t].root
            n == Len(R.from.conf) - 1
            tried == CallsAt(t, 2)
        IN  BuiltFrom(R, "failover") =>
                /\ R.h.kind = "failover"
                /\ Len(R.h.hs) = n
                /\ \A i \in 1..n : R.h.hs[i] = MakeHandler(R.from.conf[i + 1].c).h
                /\ \A j \in 1..Len(tried) :
                       /\ tried[j].id = <<R.gen, j>>
                       /\ tried[j].kind = R.h.hs[j].kind
                       /\ j > 1 => tried[j - 1].err \notin {NoErr, "-"}
                /\ ~crashed

(* C3: the handler built from multi(c1..cn) delivers every logged record   *)
(* exactly once to each of the n children built from c1..cn, in order, and *)
(* to nothing else; with a file child and a discard child, a log call      *)
(* whose write succeeds leaves exactly one line, in the file.              *)
C3_MultiDelivers ==
    \A t \in Threads :
        LET R == thr[t].root
            n == Len(R.from.conf) - 1
            got == CallsAt(t, 2)
        IN  BuiltFrom(R, "multi") =>
                /\ R.h.kind = "multi"
                /\ Len(R.h.hs) = n
                /\ \A i \in 1..n : R.h.hs[i] = MakeHandler(R.from.conf[i + 1].c).h
                /\ Finished(t) =>
                       /\ Len(got) = n
                       /\ \A i \in 1..n : got[i].id = <<R.gen, i>>
                                          /\ got[i].kind = R.h.hs[i].kind
                       /\ \A j \in 1..Len(thr[t].trace) :
                              LET e == thr[t].trace[j]
                              IN  e.id = <<R.gen>> \/ SubSeq(e.id, 1, 2) \in {g.id : g \in
                                                         {got[i] : i \in 1..n}}
                       /\ \A i \in 1..n :
                              R.h.hs[i].kind = "file" =>
                                  Wrote(t, thr[t].n - 1, <<R.gen, i>>)
                                      = IF got[i].err = NoErr THEN 1 ELSE 0
                       /\ (n = 2 /\ R.h.hs[1].kind = "file" /\ R.h.hs[2].kind = "discard")
                              => WroteAny(t, thr[t].n - 1)
                                     = IF got[1].err = NoErr THEN 1 ELSE 0

C3_Witness ==
    \E t \in Threads :
        /\ BuiltFrom(thr[t].root, "multi")
        /\ Finished(t)
        /\ Len(thr[t].root.h.hs) = 2
        /\ thr[t].root.h.hs[1].kind = "file"
        /\ thr[t].root.h.hs[2].kind = "discard"
        /\ WroteAny(t, thr[t].n - 1) = 1

(* C4: at most one PUBLISH is in progress on a built redis handler's       *)
(* connection at any time, however the callers interleave.                 *)
C4_OnePublish ==
    \A p \in pubs, q \in pubs : p[1] = q[1] => p = q

(* One goroutine is publishing while another waits for the same handler's  *)
(* mutex.                                                                  *)
C4_Witness ==
    \E t \in Threads, u \in Threads :
        /\ t # u
        /\ thr[u].pc = "run"
        /\ Head(thr[u].stk).op = "call"
        /\ Head(thr[u].stk).h.kind = "sync"
        /\ <<Head(thr[u].stk).id, t>> \in locks
        /\ <<Append(Head(thr[u].stk).id, 1), t>> \in pubs

(* C5: redis(addr, channel) with string arguments dials addr during        *)
(* MakeHandler; when the dial fails MakeHandler returns no handler and the *)
(* dial's own error, which is not BadConf.                                 *)
IsRedisCall ==
    /\ call.fn = "MakeHandler"
    /\ Len(call.conf) = 3
    /\ call.conf[1] = S("redis")
    /\ IsStr(call.conf[2])
    /\ IsStr(call.conf[3])

C5_RedisDialError ==
    IsRedisCall =>
        /\ ret.fx = <<Ev("dial", call.conf[2].s)>>
        /\ ~ret.panic
        /\ call.conf[2].s \notin up =>
               /\ ret.h = NilHandler
               /\ ret.err = DialErr
               /\ ret.err # BadConf

C5_Witness == IsRedisCall /\ call.conf[2].s \notin up /\ ret.err = DialErr

(* C6: MakeFormatter returns a formatter and no error exactly for the      *)
(* strings json, json_pretty, logfmt, terminal; for anything else it       *)
(* returns no formatter and BadConf, the error MakeHandler returns for an  *)
(* unknown kind.                                                           *)
C6_FormatterNames ==
    call.fn = "MakeFormatter" =>
        IF IsFormat(call.format)
        THEN ret.err = NoErr /\ ret.f # NilFormat
        ELSE /\ ret.f = NilFormat
             /\ ret.err = BadConf
             /\ ret.err = MakeHandler(<<S("unknown")>>).err

C6_Witness ==
    call.fn = "MakeFormatter" /\ call.format = S("") /\ ret.err = BadConf

(* The severity scale of the claim: debug < info < warn < error < crit.    *)
Severity(name) ==
    CASE name \in {"debug", "dbug"} -> 0
      [] name = "info" -> 1
      [] name = "warn" -> 2
      [] name \in {"error", "eror"} -> 3
      [] name = "crit" -> 4

(* The severity of a record, whose Lvl counts down from debug (4) to crit. *)
SeverityOf(r) == 4 - r.lvl

IsLevelFilterConf(conf) ==
    /\ Len(conf) = 3
    /\ conf[1] = S("level_filter")
    /\ IsStr(conf[2])
    /\ IsConf(conf[3])

(* A record reaches inner iff its severity is at least L, for L among names. *)
LevelFilterPasses(names) ==
    \A t \in Threads :
        LET R == thr[t].root
        IN  (/\ R.from.fn = "MakeHandler"
             /\ IsLevelFilterConf(R.from.conf)
             /\ R.from.conf[2].s \in names
             /\ Finished(t))
                => (Len(CallsAt(t, 2)) = 1
                        <=> SeverityOf(thr[t].rec) >= Severity(R.from.conf[2].s))

(* A level string outside names makes MakeHandler fail with BadConf. *)
LevelFilterRejects(names) ==
    (/\ call.fn = "MakeHandler"
     /\ IsLevelFilterConf(call.conf)
     /\ call.conf[2].s \notin names)
        => (ret.err = BadConf /\ ret.h = NilHandler)

BasicExpected(fpath, lvl, quiet) ==
    <<S("level_filter"), S(lvl),
      C(<<S("caller_file"),
          C(<<S("multi"),
              C(IF fpath = "" THEN <<S("discard")>> ELSE <<S("file"), S(fpath), S("json")>>),
              C(IF quiet THEN <<S("discard")>>
                ELSE <<S("stream"), S("stderr"), S(IF tty THEN "terminal" ELSE "json")>>)>>)>>)>>

C8_BasicHandler ==
    /\ call.fn = "MakeBasicHandler" =>
           /\ ret = Ret(MakeHandler(BasicExpected(call.fpath, call.lvl, call.quiet)), NilFormat)
           /\ ret.err = NoErr =>
                  LET m == ret.h.hs[1].hs[1]
                  IN  /\ ret.h.kind = "level_filter"
                      /\ ret.h.hs[1].kind = "caller_file"
                      /\ m.kind = "multi" /\ Len(m.hs) = 2
                      /\ m.hs[1] = IF call.fpath = "" THEN DiscardHandler
                                   ELSE H("file", <<call.fpath>>, "JsonFormat", 0, Nil, <<>>)
                      /\ IF call.quiet THEN m.hs[2] = DiscardHandler
                         ELSE /\ m.hs[2].kind = "stream"
                              /\ m.hs[2].args = <<"os.Stderr">>
    /\ \A t \in Threads :
           LET R == thr[t].root
               k == thr[t].n - 1
               passed == Len(CallsAt(t, 2)) = 1
               fileId == <<R.gen, 1, 1, 1>>
               errId == <<R.gen, 1, 1, 2>>
               sinks == CallsAt(t, 4)
           IN  (R.from.fn = "MakeBasicHandler" /\ Finished(t)) =>
                   /\ passed <=> SeverityOf(thr[t].rec) >= Severity(R.from.lvl)
                   /\ ~passed => WroteAny(t, k) = 0
                   /\ passed =>
                          /\ Len(sinks) = 2
                          /\ Wrote(t, k, fileId) =
                                 IF R.from.fpath # "" /\ sinks[1].err = NoErr THEN 1 ELSE 0
                          /\ Wrote(t, k, errId) =
                                 IF ~R.from.quiet /\ sinks[2].err = NoErr THEN 1 ELSE 0
                          /\ WroteAny(t, k) = Wrote(t, k, fileId) + Wrote(t, k, errId)
                          /\ \A l \in BagToSet(lines) :
                                 (l.t = t /\ l.k = k) =>
                                     \/ l.by = fileId /\ l.sink = "file"
                                        /\ l.name = R.from.fpath /\ l.fmt = "JsonFormat"
                                     \/ l.by = errId /\ l.sink = "stream"
                                        /\ l.name = "os.Stderr"
                   /\ (R.from.fpath = "" /\ R.from.quiet) => WroteAny(t, k) = 0

(* A quiet handler with a file: a record passed and went to the file only. *)
C8_Witness ==
    \E t \in Threads :
        /\ thr[t].root.from.fn = "MakeBasicHandler"
        /\ thr[t].root.from.fpath = "bogus"
        /\ thr[t].root.from.quiet
        /\ Finished(t)
        /\ Wrote(t, thr[t].n - 1, <<thr[t].root.gen, 1, 1, 1>>) = 1
        /\ WroteAny(t, thr[t].n - 1) = 1

(* C9: for stream with two arguments and a valid format, stdout selects    *)
(* standard output, stderr and the empty string standard error, and every  *)
(* other name makes MakeHandler fail with BadConf and no handler.          *)
IsStreamCall ==
    /\ call.fn = "MakeHandler"
    /\ Len(call.conf) = 3
    /\ call.conf[1] = S("stream")
    /\ IsStr(call.conf[2])
    /\ IsFormat(call.conf[3])

C9_StreamNames ==
    IsStreamCall =>
        CASE call.conf[2].s = "stdout" ->
                 ret.err = NoErr /\ ret.h.kind = "stream" /\ ret.h.args = <<"os.Stdout">>
          [] call.conf[2].s \in {"stderr", ""} ->
                 ret.err = NoErr /\ ret.h.kind = "stream" /\ ret.h.args = <<"os.Stderr">>
          [] OTHER -> ret.err = BadConf /\ ret.h = NilHandler /\ ~ret.panic

C9_Witness ==
    IsStreamCall /\ call.conf[2].s = "" /\ ret.h.args = <<"os.Stderr">>

(* C10: in any MakeHandler call, a node of a fixed-arity kind whose own    *)
(* arguments are invalid opens no file, makes no connection and builds no  *)
(* child: its arguments are all checked first.                             *)
FixedArity == Kinds \ {"multi", "failover"}

OwnArgsInvalid(conf) ==
    /\ Len(conf) >= 1
    /\ IsStr(conf[1])
    /\ conf[1].s \in FixedArity
    /\ ~OwnArgsOk(conf[1].s, Tail(conf))

C10_ChecksBeforeEffects ==
    call.fn = "MakeHandler" =>
        \A sub \in SubConfs(call.conf) :
            OwnArgsInvalid(sub) =>
                LET r == MakeHandler(sub)
                IN  r.fx = <<>> /\ r.err = BadConf /\ r.h = NilHandler
                    /\ (sub = call.conf => ret.fx = <<>>)

(* A file node with a path that opens and a format that does not exist. *)
C10_Witness ==
    /\ call.fn = "MakeHandler"
    /\ call.conf = <<S("file"), S("bogus"), S("bogus")>>
    /\ "bogus" \in up
    /\ ret.fx = <<>>
    /\ ret.err = BadConf

====
